---- MODULE Spec2Model ----
(***************************************************************************)
(* A model of modesto: the parameter classes (parameter.py), the component *)
(* base class and its variants (component.py) and the network facade       *)
(* Modesto with its nodes and edges (main.py).                             *)
(*                                                                         *)
(* A client of the library holds one object at a time: a parameter (par),  *)
(* a component (comp) or a network (net).  Every public method is an       *)
(* action; `last` records the most recent call and how it ended.           *)
(* Python's None is the empty tuple, a value v that may be None is <<v>>.  *)
(***************************************************************************)
EXTENDS Integers, Sequences, FiniteSets, TLC

VARIABLES par, plen, pset, comp, net, last

vars == <<par, plen, pset, comp, net, last>>

\* ---------------------------------------------------------------- bounds
MaxSteps == 2
MaxVal == 2
MaxHorizon == 2
MaxTimeStep == 2

\* ------------------------------------------------------------ Python None
None == << >>
Some(x) == << x >>
IsNone(o) == Len(o) = 0
The(o) == o[1]

NoObject == [cls |-> "NoObject"]
Exists(o) == o.cls # "NoObject"

\* A pandas DataFrame of one column with the default index 0..n-1 is the
\* sequence of its rows; row i of the frame is element i+1.
DataFrames(n) == [1..n -> 1..MaxVal]
AllDataFrames == UNION {DataFrames(n) : n \in 0..(MaxSteps + 1)}

Call(op, arg, res, ret) == [op |-> op, arg |-> arg, res |-> res, ret |-> ret]

\* ===================================================== parameter.py
\* Parameter.__init__: the value is whatever val is.
Parameter_init(cls, name, val) ==
    [cls |-> cls, name |-> name, nvals |-> None, value |-> val]

\* DataFrameParameter.__init__(name, description, unit, nvals, val=None)
DataFrameParameter_init(cls, name, nvals, val) ==
    [Parameter_init(cls, name, val) EXCEPT !.nvals = nvals]

\* UserDataParameter.__init__(name, description, unit, val=None) hands
\* (name, description, unit, val) on positionally, so that val lands in the
\* nvals slot of DataFrameParameter.__init__ and its val stays None.
UserDataParameter_init(name, val) ==
    DataFrameParameter_init("UserDataParameter", name, val, None)

\* WeatherDataParameter.__init__: the same positional call.
WeatherDataParameter_init(name, val) ==
    DataFrameParameter_init("WeatherDataParameter", name, val, None)

DesignParameter_init(name, val) == Parameter_init("DesignParameter", name, val)

StateParameter_init(name, val) == Parameter_init("StateParameter", name, val)

IsDataFrameParameter(p) ==
    p.cls \in {"DataFrameParameter", "UserDataParameter", "WeatherDataParameter"}

\* The length test of DataFrameParameter.change_value:
\* len(new_val.index) == self.nvals; an int never equals None.
LengthMatches(p, new_val) ==
    /\ ~IsNone(p.nvals)
    /\ Len(new_val) = The(p.nvals)

\* change_value: Parameter stores anything; DataFrameParameter asserts the
\* length first (the caller passes a DataFrame).
change_value(p, new_val) ==
    IF IsDataFrameParameter(p)
    THEN IF LengthMatches(p, new_val)
         THEN [obj |-> [p EXCEPT !.value = Some(new_val)], res |-> "ok"]
         ELSE [obj |-> p, res |-> "AssertionError"]
    ELSE [obj |-> [p EXCEPT !.value = Some(new_val)], res |-> "ok"]

\* Parameter.check: with no value it prints and executes a bare `raise`,
\* which Python 2 turns into a TypeError; otherwise it returns None.
check(p) == IF IsNone(p.value) THEN "TypeError" ELSE "ok"

\* The row that iloc[time] selects.
Row(frame, time) == frame[time + 1]

\* DataFrameParameter.get_value(time): time None falls through and returns
\* None; no value returns None after a warning; otherwise the index is
\* asserted and the row read.
DataFrameParameter_get_value(p, time) ==
    IF IsNone(time) THEN [res |-> "ok", ret |-> None]
    ELSE IF IsNone(p.value) THEN [res |-> "ok", ret |-> None]
    ELSE IF The(time) \in 0..(Len(The(p.value)) - 1)
         THEN [res |-> "ok", ret |-> Some(Row(The(p.value), The(time)))]
         ELSE [res |-> "AssertionError", ret |-> None]


\* ------------------------------------------------ a parameter on its own
NothingHeld == ~Exists(par) /\ ~Exists(comp) /\ ~Exists(net)

\* DataFrameParameter(name, description, unit, nvals)
NewDataFrameParameter ==
    /\ NothingHeld
    /\ \E n \in 0..MaxSteps :
        /\ par' = DataFrameParameter_init("DataFrameParameter", "series", Some(n), None)
        /\ plen' = n
    /\ pset' = None
    /\ last' = Call("DataFrameParameter", None, "ok", None)
    /\ UNCHANGED <<comp, net>>

\* The series parameter of a component of n time steps, created the way
\* create_params does: UserDataParameter(name, description, unit).
NewUserDataParameter ==
    /\ NothingHeld
    /\ \E n \in 0..MaxSteps :
        /\ par' = UserDataParameter_init("heat_profile", None)
        /\ plen' = n
    /\ pset' = None
    /\ last' = Call("UserDataParameter", None, "ok", None)
    /\ UNCHANGED <<comp, net>>

\* par.change_value(frame); pset remembers the last frame of the component's
\* length that the client assigned.
ParChangeValue ==
    /\ Exists(par)
    /\ \E frame \in AllDataFrames :
        LET r == change_value(par, frame) IN
        /\ par' = r.obj
        /\ pset' = IF Len(frame) = plen THEN Some(frame) ELSE pset
        /\ last' = Call("change_value", Some(frame), r.res, None)
    /\ UNCHANGED <<plen, comp, net>>

\* par.get_value(time)
ParGetValue ==
    /\ Exists(par)
    /\ \E time \in (-1)..(MaxSteps + 1) :
        LET r == DataFrameParameter_get_value(par, Some(time)) IN
        last' = Call("get_value", Some(time), r.res, r.ret)
    /\ UNCHANGED <<par, plen, pset, comp, net>>

\* par.check()
ParCheck ==
    /\ Exists(par)
    /\ last' = Call("check", None, check(par), None)
    /\ UNCHANGED <<par, plen, pset, comp, net>>

\* ===================================================== component.py
Values == {"v1"}

\* Python's horizon % time_step, for the non-negative times of the model.
PyMod(a, b) == a % b

\* int(horizon / time_step): true division, then truncation.
StepCount_plus(horizon, time_step) == (horizon \div time_step) + 1
StepCount(horizon, time_step) == horizon \div time_step

\* The first statements of Modesto.__init__ and of Component.__init__:
\* assert horizon % time_step == 0; a zero time step makes % raise.
HorizonCheck(horizon, time_step) ==
    IF time_step = 0 THEN "ZeroDivisionError"
    ELSE IF PyMod(horizon, time_step) = 0 THEN "ok"
    ELSE "AssertionError"

ParamsOf(design, series, state) ==
    [n \in design \cup series \cup state |->
        IF n \in design THEN DesignParameter_init(n, None)
        ELSE IF n \in series THEN UserDataParameter_init(n, None)
        ELSE StateParameter_init(n, Some("fixedVal"))]

\* FixedProfile.create_params
FixedProfile_create_params(td) ==
    IF td
    THEN ParamsOf({"delta_T", "mult", "temperature_max", "temperature_min"},
                  {"heat_profile", "mass_flow"},
                  {"temperature_supply", "temperature_return"})
    ELSE ParamsOf({"delta_T", "mult"}, {"heat_profile"}, {})

\* ProducerVariable.create_params
ProducerVariable_create_params(td) ==
    IF td
    THEN ParamsOf({"efficiency", "PEF", "CO2", "Qmax", "ramp", "ramp_cost",
                   "temperature_max", "temperature_min"},
                  {"fuel_cost", "mass_flow"},
                  {"temperature_supply", "temperature_return"})
    ELSE ParamsOf({"efficiency", "PEF", "CO2", "Qmax", "ramp", "ramp_cost"},
                  {"fuel_cost"}, {})

\* StorageVariable.create_params
StorageVariable_create_params ==
    ParamsOf({"Thi", "Tlo", "mflo_max", "volume", "ar", "dIns", "kIns"},
             {}, {"heat_stor"})

FixedClasses == {"BuildingFixed", "ProducerFixed", "StorageFixed"}
ComponentClasses == FixedClasses \cup {"ProducerVariable", "StorageVariable"}

\* The direction each class hands to Component.__init__.
DirectionOf(cls) == IF cls \in {"ProducerFixed", "ProducerVariable"} THEN 1 ELSE -1

create_params(cls, td) ==
    IF cls \in FixedClasses THEN FixedProfile_create_params(td)
    ELSE IF cls = "ProducerVariable" THEN ProducerVariable_create_params(td)
    ELSE StorageVariable_create_params

\* Component.__init__ followed by the subclass's self.params = create_params().
Component_init(cls, name, horizon, time_step, td) ==
    LET chk == HorizonCheck(horizon, time_step) IN
    IF chk # "ok" THEN [obj |-> NoObject, res |-> chk]
    ELSE [obj |-> [cls |-> cls, name |-> name,
                   horizon |-> horizon, time_step |-> time_step,
                   n_steps |-> StepCount(horizon, time_step),
                   model |-> None, parent |-> None, block |-> None,
                   params |-> create_params(cls, td),
                   slack_list |-> << >>,
                   temperature_driven |-> td,
                   direction |-> DirectionOf(cls)],
          res |-> "ok"]

IsSeries(c, n) == IsDataFrameParameter(c.params[n])
IsState(c, n) == c.params[n].cls = "StateParameter"
Unset(c) == {n \in DOMAIN c.params : IsNone(c.params[n].value)}

\* Component.change_param
Component_change_param(c, param, new_data) ==
    IF param \notin DOMAIN c.params THEN [obj |-> c, res |-> "Exception"]
    ELSE LET r == change_value(c.params[param], new_data) IN
         [obj |-> [c EXCEPT !.params[param] = r.obj], res |-> r.res]

\* What Component.check_data does with the parameter its loop visits first:
\*     if not param.check(): raise Exception(...)
\* check() raises for a parameter without a value and returns None for one
\* with a value, and `not None` is true.
CheckFirst(p) == IF check(p) # "ok" THEN check(p) ELSE "Exception"

\* Component.check_data: the outcomes over the orders in which the dict of
\* parameters may be iterated; the first parameter visited ends the loop.
check_data_outcomes(c) ==
    IF DOMAIN c.params = {} THEN {"ok"}
    ELSE {CheckFirst(c.params[n]) : n \in DOMAIN c.params}

\* pyomo: block.add_component(name, ...) on a block that holds name raises.
AddAll(block, names) ==
    IF block \cap names # {} THEN [block |-> block, res |-> "RuntimeError"]
    ELSE [block |-> block \cup names, res |-> "ok"]

\* Component.make_block: a block of this name in the parent is deleted
\* before the new, empty one is added.
make_block(c, parent) ==
    [c EXCEPT !.parent = Some((parent \ {c.name}) \cup {c.name}),
              !.block = Some({})]

\* Component.add_all_state_bounds: get_upper_bound is called on every state
\* parameter, and StateParameter has no such method.
add_all_state_bounds(c) ==
    IF \E n \in DOMAIN c.params : IsState(c, n) THEN "AttributeError" ELSE "ok"

\* Component.create_opt_params: a Param per design parameter; get_index is
\* called on every series parameter, and DataFrameParameter has none.
create_opt_params(c) ==
    IF \E n \in DOMAIN c.params : IsSeries(c, n)
    THEN [obj |-> c, res |-> "AttributeError"]
    ELSE [obj |-> [c EXCEPT !.block = Some(The(c.block) \cup
                     {n \in DOMAIN c.params : ~IsState(c, n)})],
          res |-> "ok"]

\* Component.compile(topmodel, parent) with the outcome chk of check_data.
Component_compile(c, parent, chk) ==
    IF chk # "ok" THEN [obj |-> c, res |-> chk]
    ELSE create_opt_params([make_block(c, parent) EXCEPT !.model = Some("topmodel")])

\* The elements FixedProfile.compile and ProducerVariable.compile declare
\* after Component.compile.
FixedProfile_elements(td) ==
    IF td THEN {"heat_flow", "temperatures", "decl_temperatures", "init_temperatures"}
    ELSE {"heat_flow", "mass_flow"}

ProducerVariable_elements(td) ==
    {"heat_flow", "ramping_cost", "decl_upward_ramp", "decl_downward_ramp",
     "decl_downward_ramp_cost", "decl_upward_ramp_cost"}
    \cup (IF td THEN {"decl_init_heat_flow", "temperatures", "limit_teperatures",
                      "decl_temperatures", "init_temperatures", "dec_temp_mf0"}
          ELSE {"mass_flow"})

\* FixedProfile.compile and ProducerVariable.compile
Profile_compile(c, parent, chk) ==
    LET r == Component_compile(c, parent, chk)
        els == IF c.cls \in FixedClasses
               THEN FixedProfile_elements(c.temperature_driven)
               ELSE ProducerVariable_elements(c.temperature_driven) IN
    IF r.res # "ok" THEN r
    ELSE LET a == AddAll(The(r.obj.block), els) IN
         IF a.res # "ok" THEN [obj |-> [r.obj EXCEPT !.block = Some(a.block)], res |-> a.res]
         ELSE [obj |-> [r.obj EXCEPT !.block = Some(a.block)],
               res |-> add_all_state_bounds(r.obj)]

\* StorageVariable.compile: no data check; the arithmetic on the design
\* values raises on None (mflo_max alone is tested for None); then the block
\* is made and filled up to the read of params['heat_stor'].ub, an attribute
\* StateParameter does not have.
StorageVariable_compile(c, parent) ==
    IF Unset(c) \ {"mflo_max"} # {} THEN [obj |-> c, res |-> "TypeError"]
    ELSE LET b == [make_block(c, parent) EXCEPT !.model = Some("topmodel")]
             els == {"heat_loss_ct", "mass_flow", "heat_flow", "heat_stor"}
                    \cup (IF c.temperature_driven THEN {"supply_temperature"} ELSE {}) IN
         [obj |-> [b EXCEPT !.block = Some(els)], res |-> "AttributeError"]

\* Component.add_state_bounds_slack: the two names are appended to
\* slack_list first, then the slack variables and the bounds are added.
SlackNames(state_name) == <<state_name \o "_uslack", state_name \o "_lslack">>

add_state_bounds_slack(c, state_name, ub, lb) ==
    LET listed == [c EXCEPT !.slack_list = @ \o SlackNames(state_name)] IN
    IF IsNone(c.block) \/ IsNone(c.model)
    THEN [obj |-> listed, res |-> "AttributeError"]
    ELSE LET a == AddAll(The(c.block),
                         {state_name \o "_uslack", state_name \o "_lslack"}
                         \cup (IF ub THEN {state_name \o "_ub"} ELSE {})
                         \cup (IF lb THEN {state_name \o "_lb"} ELSE {})) IN
         [obj |-> [listed EXCEPT !.block = Some(a.block)], res |-> a.res]

\* Component.add_init_constraint(state_name, init_type, value): the outcomes.
\* For 'fixedVal' without a value a ValueError is made and not raised, and
\* the equality state[0] == None goes to pyomo like any other: pyomo keeps
\* it or rejects it, after the name has been declared on the block or before.
\* ret is the equality <<state, time, value>> that was built.
InitTypes == {"free", "cyclic", "fixedVal"}
add_init_constraint(c, state_name, init_type, value) ==
    IF IsNone(c.block) THEN {[obj |-> c, res |-> "AttributeError", ret |-> None]}
    ELSE IF init_type = "free" THEN {[obj |-> c, res |-> "ok", ret |-> None]}
    ELSE LET name == state_name \o "_init_eq"
             a == AddAll(The(c.block), {name})
             added == [c EXCEPT !.block = Some(a.block)] IN
         IF a.res # "ok" THEN {[obj |-> c, res |-> a.res, ret |-> None]}
         ELSE IF state_name \notin The(c.block)
         THEN {[obj |-> added, res |-> "TypeError", ret |-> None]}
         ELSE IF c.n_steps = 0
         THEN {[obj |-> added, res |-> "KeyError", ret |-> None]}
         ELSE IF init_type = "cyclic"
         THEN {[obj |-> added, res |-> "ok",
                ret |-> Some(<<state_name, 0, <<state_name, c.n_steps - 1>> >>)]}
         ELSE IF IsNone(value)
         THEN {[obj |-> added, res |-> "ok", ret |-> Some(<<state_name, 0, None>>)],
               [obj |-> added, res |-> "TypeError", ret |-> None],
               [obj |-> c, res |-> "TypeError", ret |-> None]}
         ELSE {[obj |-> added, res |-> "ok", ret |-> Some(<<state_name, 0, The(value)>>)]}

\* Component.add_state_bounds_no_slack(state_name, ub, lb): an inequality
\* per bound that is given, over the time set.
add_state_bounds_no_slack(c, state_name, ub, lb) ==
    IF IsNone(c.block) \/ IsNone(c.model) THEN [obj |-> c, res |-> "AttributeError"]
    ELSE LET a == AddAll(The(c.block),
                         (IF ub THEN {state_name \o "_ub"} ELSE {})
                         \cup (IF lb THEN {state_name \o "_lb"} ELSE {})) IN
         [obj |-> [c EXCEPT !.block = Some(a.block)], res |-> a.res]

\* Component.obj_slack: the names whose variables are summed over the time
\* set, one term per entry of slack_list; a name the block does not hold
\* has no variable to index.
obj_slack(c) ==
    IF Len(c.slack_list) = 0 THEN [res |-> "ok", ret |-> Some(<< >>)]
    ELSE IF IsNone(c.model) \/ IsNone(c.block) THEN [res |-> "AttributeError", ret |-> None]
    ELSE IF c.n_steps > 0 /\ \E i \in 1..Len(c.slack_list) : c.slack_list[i] \notin The(c.block)
    THEN [res |-> "TypeError", ret |-> None]
    ELSE [res |-> "ok", ret |-> Some(c.slack_list)]

\* Component.pprint: the block is printed when there is one; without one an
\* Exception is made and not raised, and the call returns.
Component_pprint(c) ==
    IF IsNone(c.block) THEN [res |-> "ok", printed |-> FALSE]
    ELSE [res |-> "ok", printed |-> TRUE]

\* Component.get_param_value(name): an unknown name is logged and get_value
\* is then called on None.
Component_get_param_value(c, name) ==
    IF name \notin DOMAIN c.params THEN [res |-> "AttributeError", ret |-> None]
    ELSE [res |-> "ok", ret |-> c.params[name].value]

\* ------------------------------------------------ a component on its own
MaxBounds == 4

\* cls(name, horizon, time_step, temperature_driven)
NewComponent ==
    /\ NothingHeld
    /\ \E cls \in {"BuildingFixed", "StorageVariable"}, h \in 0..MaxHorizon, ts \in 0..MaxTimeStep,
          td \in BOOLEAN :
        LET r == Component_init(cls, "c1", h, ts, td) IN
        /\ comp' = r.obj
        /\ last' = Call(cls, Some(<<h, ts>>), r.res, None)
    /\ UNCHANGED <<par, plen, pset, net>>

\* comp.change_param(param, new_data): a value for a design or a state
\* parameter, a frame for a series parameter.
CompChangeParam ==
    /\ Exists(comp)
    /\ \E param \in DOMAIN comp.params \cup {"unknown"} :
       \E v \in IF param \in DOMAIN comp.params /\ IsSeries(comp, param)
                THEN {[i \in 1..n |-> 1] : n \in 0..(MaxSteps + 1)} ELSE Values :
        LET r == Component_change_param(comp, param, v) IN
        /\ comp' = r.obj
        /\ last' = Call("change_param", Some(param), r.res, None)
    /\ UNCHANGED <<par, plen, pset, net>>

\* comp.check_data()
CompCheckData ==
    /\ Exists(comp)
    /\ \E res \in check_data_outcomes(comp) :
        last' = Call("check_data", None, res, None)
    /\ UNCHANGED <<par, plen, pset, comp, net>>

\* comp.compile(topmodel, parent): topmodel carries TIME and Te, parent is
\* the block of the node, holding what the component put there before.
CompCompile ==
    /\ Exists(comp)
    /\ LET parent == IF IsNone(comp.parent) THEN {} ELSE The(comp.parent) IN
       \E chk \in check_data_outcomes(comp) :
        LET r == IF comp.cls = "StorageVariable"
                 THEN StorageVariable_compile(comp, parent)
                 ELSE Profile_compile(comp, parent, chk) IN
        /\ comp' = r.obj
        /\ last' = Call("compile", None, r.res, None)
    /\ UNCHANGED <<par, plen, pset, net>>

\* comp.add_state_bounds_slack(state_name, ub, lb) for a state of a
\* component that holds a model and a block, once per state and block as
\* add_all_state_bounds calls it.
CompAddStateBoundsSlack ==
    /\ Exists(comp)
    /\ ~IsNone(comp.block) /\ ~IsNone(comp.model)
    /\ Len(comp.slack_list) < MaxBounds
    /\ \E s \in {n \in DOMAIN comp.params : IsState(comp, n)}, ub \in {TRUE}, lb \in BOOLEAN :
        /\ SlackNames(s)[1] \notin The(comp.block)
        /\ LET r == add_state_bounds_slack(comp, s, ub, lb) IN
           /\ comp' = r.obj
           /\ last' = Call("add_state_bounds_slack", Some(s), r.res, None)
    /\ UNCHANGED <<par, plen, pset, net>>

\* ============================================================ main.py
\* A networkx DiGraph: nodes in insertion order, each with its dict of
\* component name -> class name (a sequence of pairs with distinct names),
\* and edges, at most one per ordered pair of nodes, each with a name.
GNode(name, comps) == [name |-> name, comps |-> comps]
GEdge(from, to, name) == [from |-> from, to |-> to, name |-> name]

GraphTwo ==
    [nodes |-> <<GNode("N1", << <<"prod", "ProducerFixed">> >>), GNode("N2", << >>)>>,
     edges |-> <<GEdge("N1", "N2", "pipe")>>]
GraphVar ==
    [nodes |-> <<GNode("N1", << <<"prod", "ProducerVariable">> >>),
                 GNode("N2", << <<"bld", "BuildingFixed">> >>)>>,
     edges |-> << >>]
GraphDupComp ==
    [nodes |-> <<GNode("N1", << <<"bld", "BuildingFixed">> >>),
                 GNode("N2", << <<"bld", "BuildingFixed">> >>)>>,
     edges |-> <<GEdge("N1", "N2", "pipe")>>]
GraphDupEdge ==
    [nodes |-> <<GNode("N1", << <<"prod", "ProducerFixed">> >>), GNode("N2", << >>)>>,
     edges |-> <<GEdge("N1", "N2", "pipe"), GEdge("N2", "N1", "pipe")>>]
GraphEdgeIsComp ==
    [nodes |-> <<GNode("N1", << <<"prod", "ProducerFixed">> >>), GNode("N2", << >>)>>,
     edges |-> <<GEdge("N1", "N2", "prod")>>]
GraphBadClass ==
    [nodes |-> <<GNode("N1", << <<"x", "NoSuchClass">> >>)>>, edges |-> << >>]

\* Two more topologies: the only component sits at the last node; two nodes
\* with neither a component nor an edge.
GraphSink ==
    [nodes |-> <<GNode("N1", << >>), GNode("N2", << <<"bld", "BuildingFixed">> >>)>>,
     edges |-> <<GEdge("N1", "N2", "pipe")>>]
GraphIsolated ==
    [nodes |-> <<GNode("N1", << >>), GNode("N2", << >>)>>, edges |-> << >>]

\* Three nodes in a line with the pipes pointing at the middle one; three
\* nodes of which two are joined by a pipe each way and the third by none.
GraphChain ==
    [nodes |-> <<GNode("N1", << <<"bld", "BuildingFixed">> >>),
                 GNode("N2", << <<"bld2", "BuildingFixed">> >>),
                 GNode("N3", << <<"prod", "ProducerFixed">> >>)>>,
     edges |-> <<GEdge("N1", "N2", "pipe"), GEdge("N3", "N2", "pipe2")>>]
GraphApart ==
    [nodes |-> <<GNode("N1", << >>), GNode("N2", << >>), GNode("N3", << >>)>>,
     edges |-> <<GEdge("N1", "N2", "pipe"), GEdge("N2", "N1", "pipe2")>>]

GraphNames == {"GraphTwo", "GraphVar", "GraphDupComp", "GraphDupEdge",
               "GraphEdgeIsComp", "GraphBadClass"}
GraphOf(g) ==
    CASE g = "GraphTwo" -> GraphTwo
      [] g = "GraphVar" -> GraphVar
      [] g = "GraphDupComp" -> GraphDupComp
      [] g = "GraphDupEdge" -> GraphDupEdge
      [] g = "GraphEdgeIsComp" -> GraphEdgeIsComp
      [] g = "GraphSink" -> GraphSink
      [] g = "GraphChain" -> GraphChain
      [] g = "GraphApart" -> GraphApart
      [] g = "GraphIsolated" -> GraphIsolated
      [] OTHER -> GraphBadClass

\* The pipe classes of pipe.py, the module main.py imports its pipes from.
PipeClasses == {"SimplePipe", "NodeMethod"}

\* A pipe as the code of main.py uses it: a component named after its edge
\* whose mass_flow series add_mf assigns in temperature-driven mode.
Pipe_init(cls, name, horizon, time_step, td) ==
    LET chk == HorizonCheck(horizon, time_step) IN
    IF chk # "ok" THEN [obj |-> NoObject, res |-> chk]
    ELSE [obj |-> [cls |-> cls, name |-> name,
                   horizon |-> horizon, time_step |-> time_step,
                   n_steps |-> StepCount(horizon, time_step),
                   model |-> None, parent |-> None, block |-> None,
                   params |-> IF td THEN ParamsOf({}, {"mass_flow"}, {})
                              ELSE ParamsOf({}, {}, {}),
                   slack_list |-> << >>,
                   temperature_driven |-> td,
                   direction |-> 1],
          res |-> "ok"]

\* Node.add_comp: the class is looked up by name; Component and FixedProfile
\* raise on the direction they are not given, VariableProfile on the missing
\* argument.
add_comp(name, ctype, horizon, time_step, td) ==
    IF ctype \in ComponentClasses THEN Component_init(ctype, name, horizon, time_step, td)
    ELSE IF ctype = "VariableProfile" THEN [obj |-> NoObject, res |-> "TypeError"]
    ELSE [obj |-> NoObject, res |-> "ValueError"]

\* Node.__init__ with Node.build: the components of one node, in the order
\* of its dict.
RECURSIVE Node_build(_, _, _, _, _, _)
Node_build(comps, i, horizon, time_step, td, acc) ==
    IF i > Len(comps) THEN [comps |-> acc, res |-> "ok"]
    ELSE LET r == add_comp(comps[i][1], comps[i][2], horizon, time_step, td) IN
         IF r.res # "ok" THEN [comps |-> acc, res |-> r.res]
         ELSE Node_build(comps, i + 1, horizon, time_step, td, (comps[i][1] :> r.obj) @@ acc)

\* The assertion of __build_nodes on the names of a new node's components.
Collides_never(components, new_components) == FALSE
Collides(components, new_components) ==
    DOMAIN components \cap DOMAIN new_components # {}

\* Modesto.__build_nodes from node i on; m carries nodes and components.
RECURSIVE build_nodes(_, _)
build_nodes(m, i) ==
    IF i > Len(m.graph.nodes) THEN [obj |-> m, res |-> "ok"]
    ELSE LET node == m.graph.nodes[i]
             r == Node_build(node.comps, 1, m.horizon, m.time_step,
                             m.temperature_driven, << >>) IN
         IF r.res # "ok" THEN [obj |-> m, res |-> r.res]
         ELSE LET withNode == [m EXCEPT !.nodes =
                      (node.name :> [comps |-> DOMAIN r.comps, block |-> None,
                                     temperature_driven |-> m.temperature_driven]) @@ @] IN
              IF Collides(m.components, r.comps)
              THEN [obj |-> withNode, res |-> "AssertionError"]
              ELSE build_nodes([withNode EXCEPT !.components = r.comps @@ @], i + 1)

\* The two assertions of __build_edges on the name of an edge.
EdgeNameTaken(m, name) == name \in m.edges \/ name \in DOMAIN m.components

\* Edge.build: the pipe class is looked up by the name pipe_model.
Edge_build(m, name) ==
    IF m.pipe_model \in PipeClasses
    THEN Pipe_init(m.pipe_model, name, m.horizon, m.time_step, m.temperature_driven)
    ELSE [obj |-> NoObject, res |-> "ValueError"]

\* Modesto.__build_edges from edge i on.
RECURSIVE build_edges(_, _)
build_edges(m, i) ==
    IF i > Len(m.graph.edges) THEN [obj |-> m, res |-> "ok"]
    ELSE LET edge == m.graph.edges[i] IN
         IF EdgeNameTaken(m, edge.name) THEN [obj |-> m, res |-> "AssertionError"]
         ELSE LET r == Edge_build(m, edge.name) IN
              IF r.res # "ok" THEN [obj |-> m, res |-> r.res]
              ELSE build_edges([m EXCEPT !.edges = @ \cup {edge.name},
                                         !.components = (edge.name :> r.obj) @@ @], i + 1)

\* Modesto.build
Modesto_build(m, graph) ==
    LET start == [m EXCEPT !.results = None, !.graph = graph,
                           !.nodes = << >>, !.components = << >>]
        n == build_nodes(start, 1) IN
    IF n.res # "ok" THEN n
    ELSE build_edges([n.obj EXCEPT !.edges = {}], 1)

\* Modesto.__init__: an exception leaves the caller without an object.
Modesto_init(horizon, time_step, pipe_model, graph) ==
    LET chk == HorizonCheck(horizon, time_step) IN
    IF chk # "ok" THEN [obj |-> NoObject, res |-> chk]
    ELSE LET m == [cls |-> "Modesto",
                   model |-> {},
                   horizon |-> horizon, time_step |-> time_step,
                   n_steps |-> StepCount(horizon, time_step),
                   pipe_model |-> pipe_model,
                   temperature_driven |-> (pipe_model = "NodeMethod"),
                   graph |-> graph, results |-> None,
                   nodes |-> << >>, edges |-> {}, components |-> << >>,
                   params |-> ("Te" :> WeatherDataParameter_init("Te", None)),
                   allow_flow_reversal |-> TRUE,
                   compiled |-> FALSE,
                   objectives |-> << >>, act_objective |-> None]
             b == Modesto_build(m, graph) IN
         IF b.res # "ok" THEN [obj |-> NoObject, res |-> b.res] ELSE b

\* Modesto.change_general_param
Modesto_change_general_param(m, param, val) ==
    IF param \notin DOMAIN m.params THEN [obj |-> m, res |-> "AssertionError"]
    ELSE LET r == change_value(m.params[param], val) IN
         [obj |-> [m EXCEPT !.params[param] = r.obj], res |-> r.res]

\* Modesto.change_param
Modesto_change_param(m, c, param, val) ==
    IF c \notin DOMAIN m.components THEN [obj |-> m, res |-> "AssertionError"]
    ELSE LET r == Component_change_param(m.components[c], param, val) IN
         [obj |-> [m EXCEPT !.components[c] = r.obj], res |-> r.res]

\* ------------------------------------------- the rules of the constraints
\* A trajectory holds the value at time t at index t + 1.
MaxHeat == 2
MaxRate == 2
At(x, t) == x[t + 1]

\* ProducerVariable.compile, _decl_upward_ramp_cost(b, t) and
\* _decl_downward_ramp_cost(b, t): TRUE stands for Constraint.Skip.
decl_upward_ramp_cost(ramping_cost, heat_flow, t, ramp_cost) ==
    IF t = 0 THEN ramping_cost = 0
    ELSE ramping_cost >= (At(heat_flow, t) - At(heat_flow, t - 1)) * ramp_cost

decl_downward_ramp_cost_none(ramping_cost, heat_flow, t, ramp_cost) == TRUE
decl_downward_ramp_cost(ramping_cost, heat_flow, t, ramp_cost) ==
    IF t = 0 THEN TRUE
    ELSE ramping_cost >= (At(heat_flow, t - 1) - At(heat_flow, t)) * ramp_cost

\* ProducerVariable.compile, _decl_upward_ramp(b, t) and
\* _decl_downward_ramp(b, t): what the rule returns at time t, Constraint.Skip
\* or an inequality, and whether the trajectory satisfies it.
decl_upward_ramp(heat_flow, t, ramp, time_step) ==
    IF t = 0 THEN [skip |-> TRUE, holds |-> TRUE]
    ELSE [skip |-> FALSE,
          holds |-> At(heat_flow, t) - At(heat_flow, t - 1) <= ramp * time_step]

decl_downward_ramp_skipped(heat_flow, t, ramp, time_step) ==
    [skip |-> TRUE, holds |-> TRUE]
decl_downward_ramp(heat_flow, t, ramp, time_step) ==
    IF t = 0 THEN [skip |-> TRUE, holds |-> TRUE]
    ELSE [skip |-> FALSE,
          holds |-> At(heat_flow, t - 1) - At(heat_flow, t) <= ramp * time_step]

\* ProducerVariable.compile in temperature-driven mode. supply holds
\* temperatures[t, 'supply']; the return temperature is taken as 0 and cp
\* as 1.
\* _limit_temperatures(b, t)
limit_temperatures(supply, t, temperature_min, temperature_max) ==
    [skip |-> FALSE,
     holds |-> temperature_min <= At(supply, t) /\ At(supply, t) <= temperature_max]

\* _decl_temperatures(b, t): the only rule that divides by the mass flow.
decl_temperatures(supply, t, heat_flow, mass_flow) ==
    IF t = 0 THEN [skip |-> TRUE, holds |-> TRUE]
    ELSE IF At(mass_flow, t) = 0 THEN [skip |-> TRUE, holds |-> TRUE]
    ELSE [skip |-> FALSE, holds |-> At(supply, t) - 0 = heat_flow \div At(mass_flow, t)]

\* _decl_temp_mf0(b, t)
decl_temp_mf0_skipped(supply, t, mass_flow) == [skip |-> TRUE, holds |-> TRUE]
decl_temp_mf0(supply, t, mass_flow) ==
    IF t # 0 /\ At(mass_flow, t) = 0
    THEN [skip |-> FALSE, holds |-> At(supply, t) = At(supply, t - 1)]
    ELSE [skip |-> TRUE, holds |-> TRUE]

\* The least value the two constraints leave to ramping_cost[t]; the
\* variable itself has no bounds.
least_ramping_cost(heat_flow, t, ramp_cost) ==
    LET range == (-(MaxHeat * MaxRate))..(MaxHeat * MaxRate)
        ok(c) == /\ decl_upward_ramp_cost(c, heat_flow, t, ramp_cost)
                 /\ decl_downward_ramp_cost(c, heat_flow, t, ramp_cost) IN
    CHOOSE c \in range : ok(c) /\ \A d \in range : ok(d) => c <= d

\* StorageVariable.compile. 1 - exp(-time_step / tau) lies strictly between
\* 0 and 1 for a positive time step and time constant; it is taken from a few
\* fractions <<numerator, denominator>>. Heat is counted in units small
\* enough for every division below to be exact.
MaxLoss == 2
DecayFractions == {<<1, 2>>, <<1, 4>>, <<3, 4>>}
HeatUnit(decay, time_step) ==
    LET RECURSIVE Power(_, _)
        Power(b, n) == IF n = 0 THEN 1 ELSE b * Power(b, n - 1) IN
    Power(decay[2] * time_step, MaxSteps)

\* _eq_heat_loss(b, t): the value the constraint gives heat_loss[t].
eq_heat_loss(heat_stor_t, heat_loss_ct_t, decay, time_step) ==
    (decay[1] * heat_stor_t) \div (decay[2] * time_step) + heat_loss_ct_t

\* _state_eq(b, t): the value the constraint gives heat_stor[t + 1].
state_eq_gain(heat_stor_t, heat_flow_t, heat_loss_t, time_step) ==
    heat_stor_t + time_step * (heat_flow_t + heat_loss_t)
state_eq(heat_stor_t, heat_flow_t, heat_loss_t, time_step) ==
    heat_stor_t + time_step * (heat_flow_t - heat_loss_t)

\* model.TIME = Set(initialize=range(n_steps), ordered=True)
TIME(n_steps) == 0..(n_steps - 1)

\* The times at which _eq_heat_loss(b, t), _state_eq(b, t) and _heat_bal(b, t)
\* index the variables of the block.
eq_heat_loss_times(t) == {t}
state_eq_times(t) == {t, t + 1}
heat_bal_times(t) == {t}

\* Constraint(self.model.TIME, rule=...) for the three rules: every rule is
\* called for every time of the set, and a variable over the time set
\* raises KeyError for a time that is not in it.
storage_constraints(n_steps) ==
    LET times == UNION {eq_heat_loss_times(t) \cup state_eq_times(t) \cup heat_bal_times(t) :
                           t \in TIME(n_steps)} IN
    [res |-> IF times \subseteq TIME(n_steps) THEN "ok" ELSE "KeyError", ret |-> times]

\* heat_stor over the times 0..MaxSteps as the two equalities fix it from
\* heat_stor[0], the heat flow and the fixed heat loss heat_loss_ct.
RECURSIVE heat_stor_after(_, _, _, _, _, _)
heat_stor_after(t, heat_stor_0, heat_flow, heat_loss_ct, decay, time_step) ==
    IF t = 0 THEN <<heat_stor_0>>
    ELSE LET before == heat_stor_after(t - 1, heat_stor_0, heat_flow, heat_loss_ct,
                                       decay, time_step)
             heat_loss == eq_heat_loss(At(before, t - 1), At(heat_loss_ct, t - 1),
                                       decay, time_step) IN
         Append(before, state_eq(At(before, t - 1), At(heat_flow, t - 1), heat_loss,
                                 time_step))

\* Node._add_bal, _temp_bal_incoming(b, t, l) for two incoming flows: the
\* rule returns the equality factor * mix_temp[t, l] == total whatever the
\* flows are; it has no branch that returns Constraint.Skip.
MaxTemp == 2
temp_bal_incoming(m1, T1, m2, T2) ==
    [skip |-> FALSE, factor |-> m1 + m2, total |-> m1 * T1 + m2 * T2]

\* What Constraint(..., rule=...) makes of what the rule returned. With
\* both flows zero the two sides are plain numbers and the equality a plain
\* True, which pyomo rejects or keeps depending on how it multiplies by 0.
def_mixed_temp(rule, m1, m2) ==
    IF rule.skip THEN {"Skip"}
    ELSE IF m1 = 0 /\ m2 = 0 THEN {"Constraint", "ValueError"}
    ELSE {"Constraint"}

\* The values of mix_temp[t, l] the equality allows.
MixTemps(rule) == {x \in 0..MaxTemp : rule.skip \/ rule.factor * x = rule.total}

\* Node._add_bal in the other mode, _heat_bal(b, t) and _mass_bal(b, t):
\* 0 == the flows of the components plus the flows of the pipes. pipes is
\* the dict of get_edges, keyed by the names of the pipes, and each name is
\* handed to get_pipe, which unpacks it as an edge of the graph: the letters
\* of a name are no edge, and the lookup raises TypeError. Without any pipe
\* and any component the rule returns the plain True, which pyomo rejects.
RECURSIVE SumOf(_)
SumOf(flows) == IF Len(flows) = 0 THEN 0 ELSE Head(flows) + SumOf(Tail(flows))

node_bal(comp_flows, pipe_flows) ==
    IF Len(pipe_flows) > 0 THEN [res |-> "TypeError", holds |-> FALSE]
    ELSE IF Len(comp_flows) = 0 THEN [res |-> "ValueError", holds |-> FALSE]
    ELSE [res |-> "Constraint", holds |-> 0 = SumOf(comp_flows)]

\* ------------------------------------------------ the mass flow numbers
MaxFlow == 2

\* inc_matrix = -nx.incidence_matrix(graph, oriented=True): row n, column e
\* holds 1 where edge e leaves node n, -1 where it enters it, 0 elsewhere.
inc_matrix(graph, n, e) ==
    IF graph.edges[e].from = graph.nodes[n].name THEN 1
    ELSE IF graph.edges[e].to = graph.nodes[n].name THEN -1
    ELSE 0

\* The product of row n of the matrix with a vector of edge flows.
RECURSIVE RowTimes(_, _, _, _)
RowTimes(graph, n, sol, e) ==
    IF e = 0 THEN 0
    ELSE inc_matrix(graph, n, e) * sol[e] + RowTimes(graph, n, sol, e - 1)

\* np.linalg.solve(matrix, mf_nodes) for the matrix without its last row:
\* the flows that satisfy every remaining row, when there is one such vector
\* and no other. A matrix that is not square or is singular has none or many.
linalg_solve(graph, mf_nodes) ==
    LET rows == Len(graph.nodes) - 1
        cols == Len(graph.edges)
        bound == rows * MaxFlow + 1
        sols == {sol \in [1..cols -> (-bound)..bound] :
                    \A n \in 1..rows : RowTimes(graph, n, sol, cols) = mf_nodes[n]} IN
    IF rows # cols \/ Cardinality(sols) # 1 THEN None
    ELSE Some(CHOOSE sol \in sols : TRUE)

\* result[left_out_node]: the sum of the edge flows times the entries of
\* the row that was taken out.
left_out_flow_negated(graph, sol) ==
    -RowTimes(graph, Len(graph.nodes), sol, Len(graph.edges))
left_out_flow(graph, sol) ==
    RowTimes(graph, Len(graph.nodes), sol, Len(graph.edges))

\* One pass of the loop of calculate_mf for the mass flows mf_nodes of the
\* nodes but the last: the flows of the edges and of the node left out.
mf_step(graph, mf_nodes) ==
    LET sol == linalg_solve(graph, mf_nodes) IN
    IF IsNone(sol) THEN [res |-> "LinAlgError", ret |-> None]
    ELSE [res |-> "ok",
          ret |-> Some([edges |-> The(sol), left_out |-> left_out_flow(graph, The(sol))])]

\* The loop over self.nodes[left_out_node].comps that ends a pass of
\* calculate_mf: result[comp].append(result[left_out_node][-1]) for each of
\* the n_comps components of the node left out.
MaxComps == 2
left_out_comps(n_comps, left_out) == [i \in 1..n_comps |-> left_out]

\* Component.get_mflo(t, compiled=False): a number when heat_profile, mult
\* and delta_T all have a value, None after the two failed attempts.
get_mflo_uncompiled(c) ==
    IF {"heat_profile", "mult", "delta_T"} \subseteq DOMAIN c.params
       /\ {"heat_profile", "mult", "delta_T"} \cap Unset(c) = {}
    THEN Some("mf") ELSE None

\* Modesto.calculate_mf: how the loop over self.time ends. Node.get_mflo
\* adds the mass flows of the components of a node to 0, and None cannot be
\* added; a node without components has the mass flow 0.
calculate_mf(m) ==
    LET nodes == m.graph.nodes IN
    IF Len(nodes) = 0 THEN "IndexError"
    ELSE IF m.n_steps = 0 THEN "ok"
    ELSE IF \E i \in 1..(Len(nodes) - 1) : nodes[i].name \notin DOMAIN m.nodes
    THEN "KeyError"
    ELSE IF \E i \in 1..(Len(nodes) - 1) : \E c \in m.nodes[nodes[i].name].comps :
                IsNone(get_mflo_uncompiled(m.components[c]))
    THEN "TypeError"
    ELSE mf_step(m.graph, [n \in 1..(Len(nodes) - 1) |-> 0]).res

\* Modesto.add_mf: the outcomes over the orders of the dict of components.
\* A frame of an empty result has no column to select; a computed column is
\* handed to change_param, which no UserDataParameter accepts.
add_mf_outcomes(m) ==
    LET mf == calculate_mf(m) IN
    IF mf # "ok" THEN {mf}
    ELSE IF DOMAIN m.components = {} THEN {"ok"}
    ELSE IF m.n_steps = 0 THEN {"KeyError"}
    ELSE {Modesto_change_param(m, c, "mass_flow", [i \in 1..m.n_steps |-> 1]).res :
              c \in DOMAIN m.components}

\* Modesto.check_data: the mass flows in temperature-driven mode, then the
\* general parameters, then the components.
Modesto_check_data_outcomes(m) ==
    LET mf == IF m.temperature_driven THEN add_mf_outcomes(m) ELSE {"ok"}
        te == check(m.params["Te"])
        cs == UNION {check_data_outcomes(m.components[c]) : c \in DOMAIN m.components} IN
    (mf \ {"ok"})
    \cup (IF "ok" \notin mf THEN {}
          ELSE IF te # "ok" THEN {te}
          ELSE IF cs \subseteq {"ok"} THEN {"ok"}
          ELSE cs \ {"ok"})

\* The component method a rule of build_objectives sums.
ObjKinds == {"energy", "cost", "co2", "temp"}
ObjectiveRule(kind) == IF kind = "temp" THEN "obj_co2" ELSE "obj_" \o kind

\* comp.obj_energy(), obj_cost(), obj_cost_ramp(), obj_co2(), obj_temp():
\* zero for every class but ProducerVariable, whose sums over its steps read
\* the block (a sum over no step reads nothing) and whose temperature sum
\* reads model.TIME.
Contribution(c, method) ==
    IF c.cls # "ProducerVariable" THEN [res |-> "ok", term |-> FALSE]
    ELSE IF method = "obj_temp"
    THEN IF IsNone(c.model) THEN [res |-> "AttributeError", term |-> FALSE]
         ELSE IF c.n_steps = 0 THEN [res |-> "ok", term |-> FALSE]
         ELSE IF ~c.temperature_driven THEN [res |-> "ValueError", term |-> FALSE]
         ELSE IF IsNone(c.block) THEN [res |-> "Exception", term |-> FALSE]
         ELSE [res |-> "ok", term |-> TRUE]
    ELSE IF c.n_steps = 0 THEN [res |-> "ok", term |-> FALSE]
    ELSE IF IsNone(c.block) THEN [res |-> "AttributeError", term |-> FALSE]
    ELSE [res |-> "ok", term |-> TRUE]

\* The sum a rule returns: the components with a term in it (a zero adds
\* nothing), or the error of a component that raises.
RuleSum(m, method) ==
    LET errs == {Contribution(m.components[c], method).res : c \in DOMAIN m.components}
                \ {"ok"} IN
    [errs |-> errs,
     terms |-> {c \in DOMAIN m.components : Contribution(m.components[c], method).term}]

NewObjective(m, kind) ==
    [active |-> TRUE, rule |-> ObjectiveRule(kind),
     terms |-> RuleSum(m, ObjectiveRule(kind)).terms]

\* Modesto.build_objectives: the four objectives are constructed in turn on
\* the model, each active as pyomo makes it, then the registry is replaced.
build_objectives_outcomes(m) ==
    LET failing == {k \in ObjKinds : RuleSum(m, ObjectiveRule(k)).errs # {}} IN
    IF failing # {}
    THEN {[obj |-> m, res |-> e] : e \in UNION {RuleSum(m, ObjectiveRule(k)).errs : k \in failing}}
    ELSE {[obj |-> [m EXCEPT !.model = @ \cup {"OBJ_ENERGY", "OBJ_COST", "OBJ_CO2", "OBJ_TEMP"},
                             !.objectives = [k \in ObjKinds |-> NewObjective(m, k)]],
           res |-> "ok"]}

\* Modesto.set_objective: the error for an unknown name is itself built from
\* an undefined name.
Modesto_set_objective(m, objtype) ==
    IF objtype \notin DOMAIN m.objectives THEN [obj |-> m, res |-> "NameError"]
    ELSE [obj |-> [m EXCEPT !.objectives =
                       [k \in DOMAIN m.objectives |-> [m.objectives[k] EXCEPT !.active = (k = objtype)]],
                            !.act_objective = Some(objtype)],
          res |-> "ok"]

\* Modesto.opt_settings: every argument is optional.
Modesto_opt_settings(m, objective, horizon, time_step, pipe_model, allow_flow_reversal) ==
    LET o == IF IsNone(objective) THEN [obj |-> m, res |-> "ok"]
             ELSE Modesto_set_objective(m, The(objective)) IN
    IF o.res # "ok" THEN o
    ELSE [obj |-> [o.obj EXCEPT
                     !.horizon = IF IsNone(horizon) THEN @ ELSE The(horizon),
                     !.time_step = IF IsNone(time_step) THEN @ ELSE The(time_step),
                     !.pipe_model = IF IsNone(pipe_model) THEN @ ELSE The(pipe_model),
                     !.allow_flow_reversal =
                         IF IsNone(allow_flow_reversal) THEN @ ELSE The(allow_flow_reversal)],
          res |-> "ok"]

\* The edges of the graph that touch a node (Node.get_edges).
PipesAt(m, n) == {m.graph.edges[i].name : i \in {j \in 1..Len(m.graph.edges) :
                      m.graph.edges[j].from = n \/ m.graph.edges[j].to = n}}

\* Node.compile: the block of the node, its components, then the balances,
\* whose rules run once per time step.
Node_compile_outcomes(m, n) ==
    LET errs == UNION {IF m.components[c].cls = "StorageVariable"
                       THEN {StorageVariable_compile(m.components[c], {}).res}
                       ELSE {Profile_compile(m.components[c], {}, chk).res :
                                 chk \in check_data_outcomes(m.components[c])} :
                       c \in m.nodes[n].comps} \ {"ok"} IN
    IF errs # {} THEN errs
    ELSE IF ~m.temperature_driven /\ m.n_steps > 0
    THEN LET bal == node_bal([i \in 1..Cardinality(m.nodes[n].comps) |-> 0],
                             [i \in 1..Cardinality(PipesAt(m, n)) |-> 0]) IN
         {IF bal.res = "Constraint" THEN "ok" ELSE bal.res}
    ELSE {"ok"}

\* Modesto.compile after check_data has returned: TIME, lines and Te, the
\* edges, the nodes, the objectives, and the flag at the very end.
compile_body(m) ==
    LET sets == [m EXCEPT !.model = @ \cup {"TIME", "lines"}]
        blocks == [sets EXCEPT !.model = @ \cup {"Te"} \cup m.edges \cup DOMAIN m.nodes,
                               !.nodes = [n \in DOMAIN m.nodes |->
                                             [m.nodes[n] EXCEPT !.block = Some({})]]]
        errs == UNION {Node_compile_outcomes(m, n) : n \in DOMAIN m.nodes} \ {"ok"} IN
    IF Len(The(m.params["Te"].value)) < m.n_steps
    THEN {[obj |-> sets, res |-> "AssertionError"]}
    ELSE IF errs # {} THEN {[obj |-> blocks, res |-> e] : e \in errs}
    ELSE {[obj |-> [b.obj EXCEPT !.compiled = @ \/ b.res = "ok"], res |-> b.res] :
              b \in build_objectives_outcomes(blocks)}

\* Modesto.compile: a compiled network logs a warning and goes on.
Modesto_compile_flag_first(m) ==
    LET chk == Modesto_check_data_outcomes(m) IN
    {[obj |-> [m EXCEPT !.compiled = TRUE], res |-> e] : e \in chk \ {"ok"}}
    \cup (IF "ok" \in chk THEN compile_body(m) ELSE {})
Modesto_compile_outcomes(m) ==
    LET chk == Modesto_check_data_outcomes(m) IN
    {[obj |-> m, res |-> e] : e \in chk \ {"ok"}}
    \cup (IF "ok" \in chk THEN compile_body(m) ELSE {})

\* ------------------------------------------------- a network on its own
PipeModelNames == PipeClasses \cup {"NoSuchPipe"}
ChangedParams == {"delta_T", "heat_profile"}
ChosenObjectives == {"energy", "cost_ramp"}
Frames == {[i \in 1..n |-> 1] : n \in 0..(MaxSteps + 1)}

\* Modesto(horizon, time_step, pipe_model, graph)
NewModesto ==
    /\ NothingHeld
    /\ \E h \in 0..MaxHorizon, ts \in 0..MaxTimeStep, pm \in PipeModelNames, g \in GraphNames :
        LET r == Modesto_init(h, ts, pm, GraphOf(g)) IN
        /\ net' = r.obj
        /\ last' = Call("Modesto", Some(<<h, ts, g>>), r.res, None)
    /\ UNCHANGED <<par, plen, pset, comp>>

\* net.opt_settings(...) with one keyword.
NetOptSettings ==
    /\ Exists(net)
    /\ \E r \in {Modesto_opt_settings(net, Some(k), None, None, None, None) : k \in ChosenObjectives}
             \cup {Modesto_opt_settings(net, None, Some(h), None, None, None) : h \in 0..MaxHorizon}
             \cup {Modesto_opt_settings(net, None, None, Some(ts), None, None) : ts \in 1..MaxTimeStep}
             \cup {Modesto_opt_settings(net, None, None, None, Some(pm), None) : pm \in {"NodeMethod"}} :
        /\ net' = r.obj
        /\ last' = Call("opt_settings", None, r.res, None)
    /\ UNCHANGED <<par, plen, pset, comp>>

\* net.change_param(comp, param, val)
NetChangeParam ==
    /\ Exists(net)
    /\ \E c \in DOMAIN net.components \cup {"unknown"}, param \in ChangedParams :
       \E v \in IF param = "delta_T" THEN Values ELSE Frames :
        LET r == Modesto_change_param(net, c, param, v) IN
        /\ net' = r.obj
        /\ last' = Call("change_param", None, r.res, None)
    /\ UNCHANGED <<par, plen, pset, comp>>

\* net.change_general_param(param, val)
NetChangeGeneralParam ==
    /\ Exists(net)
    /\ \E param \in {"Te", "unknown"}, v \in Frames :
        LET r == Modesto_change_general_param(net, param, v) IN
        /\ net' = r.obj
        /\ last' = Call("change_general_param", None, r.res, None)
    /\ UNCHANGED <<par, plen, pset, comp>>

\* net.check_data()
NetCheckData ==
    /\ Exists(net)
    /\ \E res \in Modesto_check_data_outcomes(net) :
        last' = Call("check_data", None, res, None)
    /\ UNCHANGED <<par, plen, pset, comp, net>>

\* net.compile()
NetCompile ==
    /\ Exists(net)
    /\ \E r \in Modesto_compile_outcomes(net) :
        /\ net' = r.obj
        /\ last' = Call("compile", None, r.res, None)
    /\ UNCHANGED <<par, plen, pset, comp>>

\* net.build_objectives()
NetBuildObjectives ==
    /\ Exists(net)
    /\ \E r \in build_objectives_outcomes(net) :
        /\ net' = r.obj
        /\ last' = Call("build_objectives", None, r.res, None)
    /\ UNCHANGED <<par, plen, pset, comp>>

\* net.set_objective(objtype)
NetSetObjective ==
    /\ Exists(net)
    /\ \E k \in ChosenObjectives :
        LET r == Modesto_set_objective(net, k) IN
        /\ net' = r.obj
        /\ last' = Call("set_objective", Some(k), r.res, None)
    /\ UNCHANGED <<par, plen, pset, comp>>

\* ------------------------------------------- solving and reading results
\* What the external solver reports: results.solver.status and
\* results.solver.termination_condition.
SolverStatuses == {"ok", "warning"}
TerminationConditions == {"optimal", "infeasible", "other"}

\* The status Modesto.solve returns for an outcome of the solver.
solve_status_generic(status, termination) ==
    IF status = "ok" /\ termination = "optimal" THEN 0 ELSE -1
solve_status(status, termination) ==
    IF status = "ok" /\ termination = "optimal" THEN 0
    ELSE IF termination = "infeasible" THEN 1
    ELSE -1

\* Modesto.solve once opt.solve has returned its results.
Modesto_solve(m, status, termination) ==
    [obj |-> [m EXCEPT !.results = Some(<<status, termination>>)],
     res |-> "ok",
     ret |-> Some(solve_status(status, termination))]

\* The first test of get_result: no results are held. build drops them.
Unsolved_never(m) == FALSE
Unsolved(m) == IsNone(m.results)

\* The pyomo classes get_result tells apart, for an element of a block.
\* Constraints and scalar elements are neither IndexedVar nor IndexedParam.
ElementKind(c, name) ==
    IF name \in DOMAIN c.params /\ ~IsState(c, name) THEN "IndexedParam"
    ELSE IF name \in {"heat_flow", "mass_flow", "heat_stor", "ramping_cost", "temperatures"}
    THEN "IndexedVar"
    ELSE "other"

\* Modesto.get_result(comp, name): nothing is assigned on any path. A list
\* is built over model.TIME, in its order.
Modesto_get_result(m, c, name) ==
    IF Unsolved(m) THEN [res |-> "Exception", ret |-> None]
    ELSE IF c \notin DOMAIN m.components THEN [res |-> "Exception", ret |-> None]
    ELSE IF IsNone(m.components[c].block) THEN [res |-> "AttributeError", ret |-> None]
    ELSE IF name \notin The(m.components[c].block) THEN [res |-> "Exception", ret |-> None]
    ELSE IF ElementKind(m.components[c], name) = "other" THEN [res |-> "ok", ret |-> None]
    ELSE [res |-> "ok", ret |-> Some([i \in 1..m.n_steps |-> i - 1])]

\* Modesto.change_state_bounds(comp, state, new_ub, new_lb, slack): the two
\* name tests, then change_upper_bound is called on the parameter, a method
\* no class of parameter.py has; nothing is assigned before.
Modesto_change_state_bounds(m, c, state, new_ub, new_lb, slack) ==
    IF c \notin DOMAIN m.components THEN [obj |-> m, res |-> "IndexError"]
    ELSE IF state \notin DOMAIN m.components[c].params
    THEN [obj |-> m, res |-> "IndexError"]
    ELSE [obj |-> m, res |-> "AttributeError"]

\* ================================================================ system
Init ==
    /\ par = NoObject
    /\ plen = 0
    /\ pset = None
    /\ comp = NoObject
    /\ net = NoObject
    /\ last = Call("start", None, "ok", None)

Next ==
    \/ NewDataFrameParameter
    \/ NewUserDataParameter
    \/ ParChangeValue
    \/ ParGetValue
    \/ ParCheck
    \/ NewComponent
    \/ CompChangeParam
    \/ CompCheckData
    \/ CompCompile
    \/ CompAddStateBoundsSlack
    \/ NewModesto
    \/ NetOptSettings
    \/ NetChangeParam
    \/ NetChangeGeneralParam
    \/ NetCheckData
    \/ NetCompile
    \/ NetBuildObjectives
    \/ NetSetObjective

Spec == Init /\ [][Next]_vars

\* ------------------------------------------------ a network being solved
Topologies == {"GraphTwo", "GraphVar", "GraphSink", "GraphIsolated", "GraphApart"}

\* Modesto(horizon, time_step, pipe_model, graph) over the topologies.
NewNetwork ==
    /\ NothingHeld
    /\ \E h \in 0..MaxHorizon, ts \in 1..MaxTimeStep, pm \in PipeClasses, g \in Topologies :
        LET r == Modesto_init(h, ts, pm, GraphOf(g)) IN
        /\ net' = r.obj
        /\ last' = Call("Modesto", Some(<<h, ts, g>>), r.res, None)
    /\ UNCHANGED <<par, plen, pset, comp>>

\* net.solve(): the solver is external; it returns some outcome, or the call
\* of it raises and nothing is stored.
NetSolve ==
    /\ Exists(net)
    /\ \/ \E status \in SolverStatuses, termination \in TerminationConditions :
            LET r == Modesto_solve(net, status, termination) IN
            /\ net' = r.obj
            /\ last' = Call("solve", Some(<<status, termination>>), r.res, r.ret)
       \/ /\ net' = net
          /\ last' = Call("solve", None, "ApplicationError", None)
    /\ UNCHANGED <<par, plen, pset, comp>>

\* net.get_result(comp, name)
ResultNames == {"heat_flow", "no_such_element"}
NetGetResult ==
    /\ Exists(net)
    /\ \E c \in DOMAIN net.components \cup {"no_such_comp"}, name \in ResultNames :
        LET r == Modesto_get_result(net, c, name) IN
        last' = Call("get_result", Some(<<c, name>>), r.res, r.ret)
    /\ UNCHANGED <<par, plen, pset, comp, net>>

\* net.build(graph) on a network that exists
NetBuild ==
    /\ Exists(net)
    /\ \E g \in Topologies :
        LET r == Modesto_build(net, GraphOf(g)) IN
        /\ net' = r.obj
        /\ last' = Call("build", Some(g), r.res, None)
    /\ UNCHANGED <<par, plen, pset, comp>>

\* net.change_state_bounds(comp, state, new_ub, new_lb, slack)
StateNames == {"temperature_supply", "delta_T", "no_such_param"}
NetChangeStateBounds ==
    /\ Exists(net)
    /\ \E c \in DOMAIN net.components \cup {"no_such_comp"}, state \in StateNames,
          new_ub \in 1..MaxVal, slack \in BOOLEAN :
        LET r == Modesto_change_state_bounds(net, c, state, new_ub, 0, slack) IN
        /\ net' = r.obj
        /\ last' = Call("change_state_bounds", Some(<<c, state, new_ub, 0, slack>>),
                        r.res, None)
    /\ UNCHANGED <<par, plen, pset, comp>>

\* net.calculate_mf(): the result holds a list per name, of one flow per
\* step; nothing of the network is assigned.
NetCalculateMf ==
    /\ Exists(net)
    /\ last' = Call("calculate_mf", None, calculate_mf(net), None)
    /\ UNCHANGED <<par, plen, pset, comp, net>>

NetNext ==
    \/ NewNetwork
    \/ NetCalculateMf
    \/ NetChangeStateBounds
    \/ NetSolve
    \/ NetGetResult
    \/ NetBuild
    \/ NetCheckData
    \/ NetCompile

NetSpec == Init /\ [][NetNext]_vars

\* ------------------------------------- a storage and its state constraints
\* StorageVariable(name, horizon, time_step) with its design values given.
NewStorage ==
    /\ NothingHeld
    /\ \E h \in 0..MaxHorizon, ts \in 1..MaxTimeStep, td \in BOOLEAN :
        LET r == Component_init("StorageVariable", "c1", h, ts, td) IN
        /\ comp' = IF r.res # "ok" THEN r.obj
                   ELSE [r.obj EXCEPT !.params =
                            [n \in DOMAIN @ |->
                                IF IsState(r.obj, n) THEN @[n]
                                ELSE change_value(@[n], "v1").obj]]
        /\ last' = Call("StorageVariable", Some(<<h, ts>>), r.res, None)
    /\ UNCHANGED <<par, plen, pset, net>>

\* comp.add_init_constraint(state_name, init_type, value)
CompAddInitConstraint ==
    /\ Exists(comp)
    /\ \E state_name \in {"heat_stor", "no_such_state"}, init_type \in InitTypes,
          value \in {None, Some(1)} :
       \E r \in add_init_constraint(comp, state_name, init_type, value) :
        /\ comp' = r.obj
        /\ last' = Call("add_init_constraint", Some(<<state_name, init_type, value, comp.block>>),
                        r.res, r.ret)
    /\ UNCHANGED <<par, plen, pset, net>>

\* comp.add_state_bounds_no_slack(state_name, ub, lb)
CompAddStateBoundsNoSlack ==
    /\ Exists(comp)
    /\ \E state \in {n \in DOMAIN comp.params : IsState(comp, n)}, ub \in BOOLEAN, lb \in BOOLEAN :
        LET r == add_state_bounds_no_slack(comp, state, ub, lb) IN
        /\ comp' = r.obj
        /\ last' = Call("add_state_bounds_no_slack", Some(<<state, ub, lb>>), r.res, None)
    /\ UNCHANGED <<par, plen, pset, net>>

\* comp.obj_slack()
CompObjSlack ==
    /\ Exists(comp)
    /\ LET r == obj_slack(comp) IN
       last' = Call("obj_slack", None, r.res, r.ret)
    /\ UNCHANGED <<par, plen, pset, comp, net>>

\* comp.pprint()
CompPprint ==
    /\ Exists(comp)
    /\ LET r == Component_pprint(comp) IN
       last' = Call("pprint", None, r.res, Some(r.printed))
    /\ UNCHANGED <<par, plen, pset, comp, net>>

\* comp.get_mflo(t, compiled=False)
CompGetMflo ==
    /\ Exists(comp)
    /\ last' = Call("get_mflo", None, "ok", get_mflo_uncompiled(comp))
    /\ UNCHANGED <<par, plen, pset, comp, net>>

\* comp.get_param_value(name)
CompGetParamValue ==
    /\ Exists(comp)
    /\ \E name \in {"volume", "heat_profile"} :
        LET r == Component_get_param_value(comp, name) IN
        last' = Call("get_param_value", Some(name), r.res, r.ret)
    /\ UNCHANGED <<par, plen, pset, comp, net>>

CompNext ==
    \/ NewStorage
    \/ CompPprint
    \/ CompGetMflo
    \/ CompGetParamValue
    \/ CompAddStateBoundsSlack
    \/ CompAddStateBoundsNoSlack
    \/ CompObjSlack
    \/ CompCompile
    \/ CompAddInitConstraint

CompSpec == Init /\ [][CompNext]_vars

\* ---------------------------------------------- the rules on their own
\* One step of the mass flow calculation on a graph, for given mass flows of
\* the nodes.
MfGraphs == {"GraphTwo", "GraphChain", "GraphIsolated", "GraphApart"}
TryMassFlow ==
    /\ last.op = "start"
    /\ \E g \in MfGraphs :
       \E mf_nodes \in [1..(Len(GraphOf(g).nodes) - 1) -> (-MaxFlow)..MaxFlow] :
        LET r == mf_step(GraphOf(g), mf_nodes) IN
        last' = Call("mf_step", Some(<<g, mf_nodes>>), r.res, r.ret)
    /\ UNCHANGED <<par, plen, pset, comp, net>>

\* The ramping cost of a producer along a heat trajectory, for a rate.
TryRampCost ==
    /\ last.op = "start"
    /\ \E heat_flow \in [1..(MaxSteps + 1) -> 0..MaxHeat], ramp_cost \in 0..MaxRate :
        last' = Call("ramping_cost", Some(<<heat_flow, ramp_cost>>), "ok",
                     Some([i \in 1..(MaxSteps + 1) |->
                              least_ramping_cost(heat_flow, i - 1, ramp_cost)]))
    /\ UNCHANGED <<par, plen, pset, comp, net>>

\* The stored heat of a storage along the horizon, for the heat it starts
\* with, a constant heat flow and a fixed heat loss per step.
TryStorage ==
    /\ last.op = "start"
    /\ \E decay \in DecayFractions, time_step \in 1..MaxTimeStep,
          stored \in (-MaxHeat)..MaxHeat, flow \in 0..1,
          loss \in [1..MaxSteps -> (-MaxLoss)..MaxLoss] :
        LET unit == HeatUnit(decay, time_step)
            heat_flow == [i \in 1..MaxSteps |-> flow * unit]
            heat_loss_ct == [i \in 1..MaxSteps |-> loss[i] * unit] IN
        last' = Call("heat_stor", Some(<<heat_flow, heat_loss_ct, decay, time_step>>), "ok",
                     Some(heat_stor_after(MaxSteps, stored * unit, heat_flow, heat_loss_ct,
                                          decay, time_step)))
    /\ UNCHANGED <<par, plen, pset, comp, net>>

\* The mixing rule of a node for two incoming flows with their temperatures.
TryMixing ==
    /\ last.op = "start"
    /\ \E m1 \in (-1)..MaxFlow, m2 \in (-1)..MaxFlow, T1 \in 1..MaxTemp, T2 \in 1..MaxTemp :
        LET rule == temp_bal_incoming(m1, T1, m2, T2) IN
        \E res \in def_mixed_temp(rule, m1, m2) :
            last' = Call("def_mixed_temp", Some(<<m1, T1, m2, T2>>), res, Some(MixTemps(rule)))
    /\ UNCHANGED <<par, plen, pset, comp, net>>

\* The ramp limits of a producer along a heat trajectory: the two
\* constraints over the time set, and whether the trajectory is feasible.
TryRamp ==
    /\ last.op = "start"
    /\ \E heat_flow \in [1..(MaxSteps + 1) -> 0..MaxHeat], ramp \in 0..MaxRate,
          time_step \in 1..MaxTimeStep :
        LET up == [i \in 1..(MaxSteps + 1) |-> decl_upward_ramp(heat_flow, i - 1, ramp, time_step)]
            down == [i \in 1..(MaxSteps + 1) |->
                        decl_downward_ramp(heat_flow, i - 1, ramp, time_step)]
            feasible == \A i \in 1..(MaxSteps + 1) : up[i].holds /\ down[i].holds IN
        last' = Call("ramp", Some(<<heat_flow, ramp, time_step>>),
                     IF feasible THEN "feasible" ELSE "infeasible",
                     Some([up |-> [i \in 1..(MaxSteps + 1) |-> up[i].skip],
                           down |-> [i \in 1..(MaxSteps + 1) |-> down[i].skip]]))
    /\ UNCHANGED <<par, plen, pset, comp, net>>

\* The balance of a node in the other mode, for the flows of its components
\* and of the pipes at the node, each signed towards the node.
TryBalance ==
    /\ last.op = "start"
    /\ \E nc \in 0..2, np \in 0..2 :
       \E comp_flows \in [1..nc -> (-1)..MaxFlow], pipe_flows \in [1..np -> (-1)..MaxFlow] :
        LET r == node_bal(comp_flows, pipe_flows) IN
        last' = Call("node_bal", Some(<<comp_flows, pipe_flows>>), r.res, Some(r.holds))
    /\ UNCHANGED <<par, plen, pset, comp, net>>

\* The temperature constraints of a producer along a trajectory of supply
\* temperatures, for the mass flows of the steps.
TryTemperatures ==
    /\ last.op = "start"
    /\ \E supply \in [1..(MaxSteps + 1) -> 0..MaxTemp], mass_flow \in [1..(MaxSteps + 1) -> 0..1],
          temperature_min \in 0..1, temperature_max \in 1..MaxTemp, heat_flow \in 1..MaxTemp :
        LET Times == 1..(MaxSteps + 1)
            limit == [i \in Times |-> limit_temperatures(supply, i - 1, temperature_min,
                                                         temperature_max)]
            decl == [i \in Times |-> decl_temperatures(supply, i - 1, heat_flow, mass_flow)]
            mf0 == [i \in Times |-> decl_temp_mf0(supply, i - 1, mass_flow)]
            feasible == \A i \in Times : limit[i].holds /\ decl[i].holds /\ mf0[i].holds IN
        last' = Call("temperatures",
                     Some(<<supply, mass_flow, temperature_min, temperature_max>>),
                     IF feasible THEN "feasible" ELSE "infeasible",
                     Some([i \in Times |-> ~decl[i].skip]))
    /\ UNCHANGED <<par, plen, pset, comp, net>>

\* The constraints of a storage over a time set of n_steps times.
TryStorageTimes ==
    /\ last.op = "start"
    /\ \E n_steps \in 0..(MaxSteps + 1) :
        LET r == storage_constraints(n_steps) IN
        last' = Call("storage_constraints", Some(n_steps), r.res, Some(r.ret))
    /\ UNCHANGED <<par, plen, pset, comp, net>>

\* One pass of calculate_mf on a graph whose node left out holds n_comps
\* components: the flows given to the nodes kept, to the node left out and
\* to each of its components.
TryLeftOutComps ==
    /\ last.op = "start"
    /\ \E g \in MfGraphs, n_comps \in 1..MaxComps :
       \E mf_nodes \in [1..(Len(GraphOf(g).nodes) - 1) -> (-MaxFlow)..MaxFlow] :
        LET r == mf_step(GraphOf(g), mf_nodes) IN
        last' = Call("left_out_comps", Some(<<g, mf_nodes, n_comps>>), r.res,
                     IF r.res = "ok"
                     THEN Some([left_out |-> The(r.ret).left_out,
                                comps |-> left_out_comps(n_comps, The(r.ret).left_out)])
                     ELSE None)
    /\ UNCHANGED <<par, plen, pset, comp, net>>

RuleNext ==
    \/ TryMassFlow
    \/ TryLeftOutComps
    \/ TryStorageTimes
    \/ TryTemperatures
    \/ TryBalance
    \/ TryRamp
    \/ TryMixing
    \/ TryRampCost
    \/ TryStorage

RuleSpec == Init /\ [][RuleNext]_vars

\* ================================================================ claims

\* C1: in every reachable state of a network, horizon is an exact multiple
\* of time_step and n_steps equals horizon / time_step.
C1_StepCountInvariant ==
    Exists(net) =>
        /\ net.time_step # 0
        /\ PyMod(net.horizon, net.time_step) = 0
        /\ net.n_steps * net.time_step = net.horizon

\* C2: constructing a network or a component with a horizon that is an exact
\* multiple of time_step yields n_steps = horizon / time_step (a component
\* is always built, a network unless its graph is refused); with any other
\* horizon the construction raises and there is no object.
C2_ConstructionStepCount ==
    last.op \in {"Modesto"} \cup ComponentClasses =>
        LET h == The(last.arg)[1]
            ts == The(last.arg)[2]
            obj == IF last.op = "Modesto" THEN net ELSE comp IN
        IF ts # 0 /\ h % ts = 0
        THEN /\ last.op # "Modesto" => last.res = "ok"
             /\ last.res = "ok" =>
                    /\ Exists(obj)
                    /\ obj.horizon = h /\ obj.time_step = ts
                    /\ obj.n_steps * ts = h
             /\ last.res # "ok" => ~Exists(obj)
        ELSE last.res # "ok" /\ ~Exists(obj)

\* C2's case: a network built over more than one step.
C2_BuiltOverSteps ==
    last.op = "Modesto" /\ last.res = "ok" /\ net.n_steps = MaxHorizon

\* C4: compiling a component again never accumulates: its slack list holds
\* each slack name at most once.
C4_SlackListNoDuplicates ==
    Exists(comp) =>
        \A i, j \in 1..Len(comp.slack_list) :
            comp.slack_list[i] = comp.slack_list[j] => i = j

\* C5: the assembly of a network fails, with nothing compiled, when two
\* nodes declare a component of the same name, two edges share a name or an
\* edge is named like a component; after a successful assembly every name
\* of the component map is declared exactly once in the graph, by a node as
\* a component of that class or by an edge as a pipe.
C5_AssemblyNamesUnique ==
    last.op = "Modesto" =>
        LET g == GraphOf(The(last.arg)[3])
            decls == UNION {{<<i, j>> : j \in 1..Len(g.nodes[i].comps)} : i \in 1..Len(g.nodes)}
            compDecls(n) == {d \in decls : g.nodes[d[1]].comps[d[2]][1] = n}
            edgeDecls(n) == {e \in 1..Len(g.edges) : g.edges[e].name = n}
            names == {g.nodes[d[1]].comps[d[2]][1] : d \in decls}
                     \cup {g.edges[e].name : e \in 1..Len(g.edges)} IN
        /\ (\E n \in names : Cardinality(compDecls(n)) + Cardinality(edgeDecls(n)) > 1)
               => last.res # "ok" /\ ~Exists(net)
        /\ last.res = "ok" =>
               /\ ~net.compiled
               /\ DOMAIN net.components = names
               /\ \A n \in names :
                      /\ Cardinality(compDecls(n)) + Cardinality(edgeDecls(n)) = 1
                      /\ IsNone(net.components[n].block)
                      /\ \A d \in compDecls(n) :
                             net.components[n].cls = g.nodes[d[1]].comps[d[2]][2]
                      /\ edgeDecls(n) # {} => net.components[n].cls \in PipeClasses

\* C5's case: an assembled network with a node component and a pipe.
C5_Assembled ==
    /\ last.op = "Modesto" /\ last.res = "ok"
    /\ net.edges # {}
    /\ \E n \in DOMAIN net.nodes : net.nodes[n].comps # {}

\* C6: check_data of a component raises exactly when at least one of its
\* parameters has no value.
C6_CheckDataIffUnset ==
    (Exists(comp) /\ last.op = "check_data") =>
        (last.res # "ok" <=> Unset(comp) # {})

\* C7: a series parameter of a component built for plen steps accepts a
\* frame of exactly plen values and rejects every other frame, keeping the
\* value it held.
C7_SeriesLength ==
    (Exists(par) /\ par.cls = "UserDataParameter" /\ last.op = "change_value") =>
        /\ last.res = "ok" <=> Len(The(last.arg)) = plen
        /\ par.value = pset

\* C8: once a frame of plen values has been handed to a series parameter,
\* reading it at an index in 0..plen-1 returns the value of the frame there
\* and reading it at any other index raises.
C8_SeriesRoundTrip ==
    (Exists(par) /\ par.cls = "UserDataParameter" /\ ~IsNone(pset) /\ last.op = "get_value") =>
        LET t == The(last.arg) IN
        IF t \in 0..(plen - 1)
        THEN last.res = "ok" /\ last.ret = Some(The(pset)[t + 1])
        ELSE last.res = "AssertionError"

\* C9: once the objectives of a network are built at most one of them is
\* active, and after set_objective(k) for a registered k it is k alone.
C9_AtMostOneActive ==
    Exists(net) =>
        LET active == {k \in DOMAIN net.objectives : net.objectives[k].active} IN
        /\ Cardinality(active) <= 1
        /\ (last.op = "set_objective" /\ last.res = "ok") => active = {The(last.arg)}

\* C10: once the objectives of a network are built there is one for each of
\* energy, cost, cost with ramping, co2 and temperature, and it is the sum
\* over the components and pipes of their contribution of that kind.
C10_ObjectivePerKind ==
    (Exists(net) /\ DOMAIN net.objectives # {}) =>
        \A k \in {"energy", "cost", "cost_ramp", "co2", "temp"} :
            /\ k \in DOMAIN net.objectives
            /\ net.objectives[k].rule = "obj_" \o k
            /\ net.objectives[k].terms = RuleSum(net, "obj_" \o k).terms

\* C11: solve does not raise on an outcome of the solver: it returns 0
\* exactly when the status is ok and the termination condition optimal, 1
\* when the termination condition is infeasible, and -1 otherwise, and it
\* keeps the results.
C11_SolveStatus ==
    (last.op = "solve" /\ ~IsNone(last.arg)) =>
        LET status == The(last.arg)[1]
            termination == The(last.arg)[2] IN
        /\ last.res = "ok"
        /\ net.results = last.arg
        /\ The(last.ret) = 0 <=> (status = "ok" /\ termination = "optimal")
        /\ The(last.ret) = 1 <=>
               (termination = "infeasible" /\ ~(status = "ok" /\ termination = "optimal"))
        /\ The(last.ret) \in {0, 1, -1}

\* C11's case: the solver reported an infeasible problem.
C11_Infeasible ==
    /\ last.op = "solve" /\ ~IsNone(last.arg)
    /\ The(last.arg)[2] = "infeasible"
    /\ last.ret = Some(1)

C13_StateBoundsTaken ==
    last.op = "change_state_bounds" =>
        LET c == The(last.arg)[1]
            state == The(last.arg)[2] IN
        IF c \notin DOMAIN net.components THEN last.res = "IndexError"
        ELSE IF state \notin DOMAIN net.components[c].params THEN last.res = "IndexError"
        ELSE IsState(net.components[c], state) => last.res = "ok"

\* C14: in every completed step of the mass flow calculation, the edge flows
\* that enter the node left out, less those that leave it, are the negative
\* of the flow given to that node, and the flows of all the nodes sum to
\* zero.
C14_MassConservation ==
    (last.op = "mf_step" /\ last.res = "ok") =>
        LET graph == GraphOf(The(last.arg)[1])
            mf_nodes == The(last.arg)[2]
            sol == The(last.ret).edges
            left_out == The(last.ret).left_out
            d == graph.nodes[Len(graph.nodes)].name
            Into(e) == IF graph.edges[e].to = d THEN sol[e] ELSE 0
            OutOf(e) == IF graph.edges[e].from = d THEN sol[e] ELSE 0
            Edges == 1..Len(graph.edges)
            RECURSIVE Total(_, _)
            Total(f, n) == IF n = 0 THEN 0 ELSE f[n] + Total(f, n - 1)
            net_in == Total([e \in Edges |-> Into(e) - OutOf(e)], Len(graph.edges)) IN
        /\ net_in = -left_out
        /\ Total(mf_nodes, Len(mf_nodes)) + left_out = 0

\* C14's case: a step completed on the three-node line with flows that do
\* not cancel, so the node left out carries a flow.
C14_ChainSolved ==
    /\ last.op = "mf_step" /\ last.res = "ok"
    /\ The(last.arg)[1] = "GraphChain"
    /\ The(last.ret).left_out # 0
    /\ The(last.arg)[2][1] # The(last.arg)[2][2]

\* C15: on a network whose graph is not connected, or has not one edge less
\* than it has nodes, the mass flow calculation ends in an error, and so does
\* every compile in temperature-driven mode.
C15_BadTopologyFails ==
    LET graph == net.graph
        names == {graph.nodes[i].name : i \in 1..Len(graph.nodes)}
        Joined(a, b) == \E e \in 1..Len(graph.edges) :
                            {graph.edges[e].from, graph.edges[e].to} = {a, b}
        RECURSIVE Grow(_)
        Grow(S) == LET T == S \cup {b \in names : \E a \in S : Joined(a, b)} IN
                   IF T = S THEN S ELSE Grow(T)
        connected == Grow({graph.nodes[1].name}) = names
        square == Len(graph.edges) = Len(graph.nodes) - 1 IN
    (Exists(net) /\ ~(connected /\ square)) =>
        /\ last.op = "calculate_mf" => last.res # "ok"
        /\ (last.op = "compile" /\ net.temperature_driven) => last.res # "ok"

\* C16: along a heat trajectory that changes at one time t > 0 only, by D
\* upward or by D downward, the least ramping cost the constraints allow at t
\* is D times the ramping cost rate, and it is zero at every other time.
C16_RampCost ==
    last.op = "ramping_cost" =>
        LET heat_flow == The(last.arg)[1]
            ramp_cost == The(last.arg)[2]
            cost == The(last.ret)
            Steps == {t \in 1..MaxSteps : At(heat_flow, t) # At(heat_flow, t - 1)} IN
        \A t \in Steps : Steps = {t} =>
            LET up == At(heat_flow, t) - At(heat_flow, t - 1)
                D == IF up > 0 THEN up ELSE -up IN
            /\ At(cost, t) = D * ramp_cost
            /\ \A u \in 0..MaxSteps : u # t => At(cost, u) = 0

\* C16's case: a single downward step from the top at the last time, at a rate
\* that is not zero.
C16_DownwardStep ==
    /\ last.op = "ramping_cost"
    /\ The(last.arg)[2] > 0
    /\ \A t \in 0..(MaxSteps - 1) : At(The(last.arg)[1], t) = MaxHeat
    /\ At(The(last.arg)[1], MaxSteps) = 0
    /\ At(The(last.ret), MaxSteps) = MaxHeat * The(last.arg)[2]

\* C17 as stated: with a heat flow of zero at every step and a fixed heat
\* loss that is not zero at any step, the stored heat never rises from one
\* step to the next.
C17_PureDecay ==
    last.op = "heat_stor" =>
        LET heat_flow == The(last.arg)[1]
            heat_loss_ct == The(last.arg)[2]
            heat_stor == The(last.ret) IN
        (\A t \in 0..(MaxSteps - 1) : At(heat_flow, t) = 0 /\ At(heat_loss_ct, t) # 0) =>
            \A t \in 0..(MaxSteps - 1) : At(heat_stor, t + 1) <= At(heat_stor, t)

\* C17, amended: with a heat flow of zero at every step, a fixed heat loss
\* above zero at every step and a stored heat that is not negative at any
\* step that has a successor, the stored heat never rises from one step to
\* the next.
C17_DecayWhileLosing ==
    last.op = "heat_stor" =>
        LET heat_flow == The(last.arg)[1]
            heat_loss_ct == The(last.arg)[2]
            heat_stor == The(last.ret) IN
        (\A t \in 0..(MaxSteps - 1) :
            At(heat_flow, t) = 0 /\ At(heat_loss_ct, t) > 0 /\ At(heat_stor, t) >= 0) =>
            \A t \in 0..(MaxSteps - 1) : At(heat_stor, t + 1) <= At(heat_stor, t)

\* C17's case: a storage that holds heat, takes and gives none, loses heat
\* to the ambient at every step and still holds some before the last step.
C17_Decaying ==
    /\ last.op = "heat_stor"
    /\ \A t \in 0..(MaxSteps - 1) :
         /\ At(The(last.arg)[1], t) = 0
         /\ At(The(last.arg)[2], t) > 0
         /\ At(The(last.ret), t) > 0
    /\ At(The(last.ret), MaxSteps) < At(The(last.ret), 0)

\* C18: for two incoming flows m1 and m2 with temperatures T1 and T2, the
\* node's mixing relation allows no mixed temperature but
\* (m1*T1 + m2*T2)/(m1 + m2) when m1 + m2 is not zero, and is skipped when
\* m1 + m2 is zero.
C18_Mixing ==
    last.op = "def_mixed_temp" =>
        LET m1 == The(last.arg)[1]
            T1 == The(last.arg)[2]
            m2 == The(last.arg)[3]
            T2 == The(last.arg)[4]
            mix == The(last.ret) IN
        IF m1 + m2 # 0
        THEN /\ last.res = "Constraint"
             /\ \A x \in 0..MaxTemp : x \in mix <=> x * (m1 + m2) = m1 * T1 + m2 * T2
        ELSE last.res = "Skip"

\* C20: in temperature-driven mode, on a network whose mass flows need no
\* data (two joined nodes, the only component at the node left out) and a
\* horizon of one step or more, a compile leaves every component and every
\* pipe with a mass flow series of n_steps values; in the other mode no
\* compile ends in an error of the mass flow calculation.
C20_MassFlowsAssigned ==
    (Exists(net) /\ last.op = "compile") =>
        IF net.temperature_driven
        THEN (net.n_steps > 0 /\ net.graph = GraphSink) =>
                \A c \in DOMAIN net.components :
                    /\ "mass_flow" \in DOMAIN net.components[c].params
                    /\ ~IsNone(net.components[c].params["mass_flow"].value)
                    /\ Len(The(net.components[c].params["mass_flow"].value)) = net.n_steps
        ELSE last.res # "LinAlgError"

\* C21: a heat trajectory of a variable producer is feasible under the two
\* ramp constraints exactly when the heat changes by no more than ramp times
\* the time step, up or down, at every time t > 0; at t = 0 both rules are
\* skipped, and at every later time both are emitted.
C21_RampLimit ==
    last.op = "ramp" =>
        LET heat_flow == The(last.arg)[1]
            limit == The(last.arg)[2] * The(last.arg)[3]
            Change(t) == At(heat_flow, t) - At(heat_flow, t - 1)
            Within(t) == Change(t) <= limit /\ -Change(t) <= limit IN
        /\ last.res = "feasible" <=> \A t \in 1..MaxSteps : Within(t)
        /\ At(The(last.ret).up, 0) /\ At(The(last.ret).down, 0)
        /\ \A t \in 1..MaxSteps : ~At(The(last.ret).up, t) /\ ~At(The(last.ret).down, t)

\* C21's case: a trajectory that falls by more than the limit at the last
\* time, and nowhere else moves at all, is infeasible.
C21_FallsTooFast ==
    /\ last.op = "ramp" /\ last.res = "infeasible"
    /\ \A t \in 0..(MaxSteps - 1) : At(The(last.arg)[1], t) = MaxHeat
    /\ At(The(last.arg)[1], MaxSteps) = 0
    /\ The(last.arg)[2] > 0

\* C22: in the mode that is not temperature-driven, the balance of a node
\* with a component or a pipe is emitted as a constraint, and it holds
\* exactly when the flows of its components and of the pipes at the node,
\* signed towards the node, sum to zero.
C22_NodeBalance ==
    last.op = "node_bal" =>
        LET comp_flows == The(last.arg)[1]
            pipe_flows == The(last.arg)[2] IN
        (Len(comp_flows) + Len(pipe_flows) > 0) =>
            /\ last.res = "Constraint"
            /\ The(last.ret) <=> SumOf(comp_flows) + SumOf(pipe_flows) = 0

\* C23: add_init_constraint of the kind fixedVal, for a state of a compiled
\* component with a first time step, fails without a value and leaves the
\* block as it was; with a value v it adds the equality of the state at
\* time 0 with v.
C23_FixedValue ==
    (last.op = "add_init_constraint" /\ The(last.arg)[2] = "fixedVal") =>
        LET state_name == The(last.arg)[1]
            value == The(last.arg)[3]
            before == The(last.arg)[4] IN
        (~IsNone(before) /\ state_name \in The(before)
           /\ (state_name \o "_init_eq") \notin The(before) /\ comp.n_steps > 0) =>
            IF IsNone(value)
            THEN last.res # "ok" /\ comp.block = before
            ELSE /\ last.res = "ok"
                 /\ last.ret = Some(<<state_name, 0, The(value)>>)
                 /\ The(comp.block) = The(before) \cup {state_name \o "_init_eq"}

\* C24: a compile of a component that has a state parameter ends without an
\* error, and for each of its states the block then holds the bounds of the
\* state, hard or with the two slack variables that obj_slack sums.
C24_StateBounds ==
    (Exists(comp) /\ last.op = "compile") =>
        \A state \in {n \in DOMAIN comp.params : IsState(comp, n)} :
            /\ last.res = "ok"
            /\ {state \o "_ub", state \o "_lb"} \cap The(comp.block) # {}
            /\ (state \o "_uslack") \in The(comp.block) =>
                   \E i \in 1..Len(comp.slack_list) : comp.slack_list[i] = state \o "_uslack"

\* C25: in every feasible trajectory of a temperature-driven variable
\* producer the supply temperature lies between temperature_min and
\* temperature_max at every time, and equals the supply temperature of the
\* time before at every time t > 0 whose mass flow is zero; and the
\* constraint that divides by the mass flow is emitted at no time whose mass
\* flow is zero.
C25_SupplyTemperature ==
    last.op = "temperatures" =>
        LET supply == The(last.arg)[1]
            mass_flow == The(last.arg)[2]
            temperature_min == The(last.arg)[3]
            temperature_max == The(last.arg)[4]
            divides == The(last.ret) IN
        /\ last.res = "feasible" =>
             /\ \A t \in 0..MaxSteps :
                    temperature_min <= At(supply, t) /\ At(supply, t) <= temperature_max
             /\ \A t \in 1..MaxSteps :
                    At(mass_flow, t) = 0 => At(supply, t) = At(supply, t - 1)
        /\ \A t \in 0..MaxSteps : At(mass_flow, t) = 0 => ~At(divides, t)

\* C25's case: a feasible trajectory with a mass flow at time 1 and none at
\* the last time.
C25_HoldsAtZeroFlow ==
    /\ last.op = "temperatures" /\ last.res = "feasible"
    /\ At(The(last.arg)[2], 1) # 0
    /\ At(The(last.arg)[2], MaxSteps) = 0
    /\ At(The(last.ret), 1)

\* C26: a call that cannot produce its result ends in an error: the mass
\* flow estimate of a component without a heat profile, the printing of a
\* component without a block, and the value of a parameter the component
\* does not have.
C26_NothingSwallowed ==
    Exists(comp) =>
        /\ (last.op = "get_mflo" /\ "heat_profile" \notin DOMAIN comp.params) => last.res # "ok"
        /\ (last.op = "pprint" /\ IsNone(comp.block)) => last.res # "ok"
        /\ (last.op = "get_param_value" /\ The(last.arg) \notin DOMAIN comp.params) =>
               last.res # "ok"

\* C27: every time at which a constraint of the variable storage indexes a
\* variable lies in the time set 0..n_steps-1, and declaring the constraints
\* raises no error.
C27_TimesInSet ==
    last.op = "storage_constraints" =>
        /\ The(last.ret) \subseteq 0..(The(last.arg) - 1)
        /\ last.res = "ok"

\* C28: after a pass of the mass flow calculation the flows given to the
\* components of the node left out sum to the flow of that node, however
\* many components it holds, and with the flows of the nodes kept they sum
\* to zero.
C28_LeftOutShared ==
    (last.op = "left_out_comps" /\ last.res = "ok") =>
        /\ SumOf(The(last.ret).comps) = The(last.ret).left_out
        /\ SumOf(The(last.arg)[2]) + SumOf(The(last.ret).comps) = 0

\* C30: a network is temperature driven exactly when its pipe model is
\* NodeMethod, and every node and every component it holds, the pipes of its
\* edges among them, carries the same flag as the network.
C30_TemperatureDriven ==
    Exists(net) =>
        /\ net.temperature_driven <=> (net.pipe_model = "NodeMethod")
        /\ \A n \in DOMAIN net.nodes :
               net.nodes[n].temperature_driven = net.temperature_driven
        /\ \A c \in DOMAIN net.components :
               net.components[c].temperature_driven = net.temperature_driven

====
